---- MODULE Spec2Model ----
(***************************************************************************)
(* copilot-premium-usage-exporter: the rate-limited GitHub client          *)
(* (internal/github, src/unnamed/part_000) and the worker / scrape path    *)
(* of cmd/main.go (src/unnamed/part_002).                                  *)
(*                                                                         *)
(* Time is counted in ticks, Second ticks to the second.  A time.Duration  *)
(* is a signed integer of DurBits bits (int64 nanoseconds in Go, where     *)
(* Second is 10^9): products and sums of durations wrap, time.Until        *)
(* saturates, as in package time.  Header values are sequences of          *)
(* one-character strings; the absent header is the empty sequence, which   *)
(* is what http.Header.Get returns for it.                                 *)
(***************************************************************************)
EXTENDS Integers, Sequences, FiniteSets, TLC

----------------------------------------------------------------------------
(* Bounds of the model *)

\* ticks per second (time.Second is 10^9 ns)
Second == 4
\* width of a time.Duration in bits (64 in Go)
DurBits == 12
\* get calls per behaviour of SpecGet
MaxCalls == 2
\* collection cycles per behaviour of Spec
MaxCycles == 2
\* ListCopilotSeats: perPage (100 in the source)
perPage == 2
\* conf.WorkerInterval, in seconds
WorkerInterval == 120

----------------------------------------------------------------------------
(* Program constants *)

maxRetries == 3
defaultFallbackSleep == 60 * Second
rateLimitResetBuffer == 5 * Second

StatusOK == 200
StatusTooManyRequests == 429
StatusForbidden == 403

----------------------------------------------------------------------------
(* package time *)

RECURSIVE Pow2(_)
Pow2(n) == IF n = 0 THEN 1 ELSE 2 * Pow2(n - 1)

maxDuration == Pow2(DurBits - 1) - 1
minDuration == 0 - Pow2(DurBits - 1)

\* two's-complement wrap of a Duration sum or product
WrapDuration(x) == ((x + Pow2(DurBits - 1)) % Pow2(DurBits)) - Pow2(DurBits - 1)

\* time.Unix(unix, 0)
TimeUnix(unix) == unix * Second

\* time.Until(t) at instant t0: Time.Sub saturates at the Duration limits
TimeUntil(t, t0) ==
    IF t - t0 > maxDuration THEN maxDuration
    ELSE IF t - t0 < minDuration THEN minDuration
    ELSE t - t0

\* the instant at which time.Sleep(d), called at t0, returns
SleepUntil(t0, d) == IF d > 0 THEN t0 + d ELSE t0

\* the zero time.Time (year 1): further in the past than any Duration spans
ZeroTime == 0 - 4 * Pow2(DurBits)

----------------------------------------------------------------------------
(* package strconv *)

DigitVal == [c \in {"0", "1", "2", "3", "4", "5", "6", "7", "8", "9"} |->
               CASE c = "0" -> 0 [] c = "1" -> 1 [] c = "2" -> 2 [] c = "3" -> 3
                 [] c = "4" -> 4 [] c = "5" -> 5 [] c = "6" -> 6 [] c = "7" -> 7
                 [] c = "8" -> 8 [] c = "9" -> 9]

AllDigits(s) == \A i \in 1..Len(s) : s[i] \in DOMAIN DigitVal

RECURSIVE DigitsValue(_)
DigitsValue(s) ==
    IF s = <<>> THEN 0
    ELSE 10 * DigitsValue(SubSeq(s, 1, Len(s) - 1)) + DigitVal[s[Len(s)]]

\* strconv.ParseInt(s, 10, 64) and strconv.Atoi(s): an optional sign, then one
\* or more decimal digits.  (No header value of the model is long enough to
\* leave the int64 range.)
ParseInt(s) ==
    LET signed == s # <<>> /\ s[1] \in {"+", "-"}
        digits == IF signed THEN Tail(s) ELSE s
    IN  IF digits = <<>> \/ ~AllDigits(digits)
        THEN [ok |-> FALSE, val |-> 0]
        ELSE [ok |-> TRUE,
              val |-> IF signed /\ s[1] = "-" THEN 0 - DigitsValue(digits)
                      ELSE DigitsValue(digits)]

----------------------------------------------------------------------------
(* HTTP responses *)

NoHeader == <<>>

\* a body is what it decodes to, or is no JSON at all
Body(val) == [json |-> TRUE, val |-> val]
Garbage == [json |-> FALSE, val |-> <<>>]

\* what httpClient.Do hands back: a transport error, or a response of which
\* the client reads the status, three headers and the body
TransportError ==
    [transport |-> TRUE, status |-> 0, retryAfter |-> NoHeader,
     remaining |-> NoHeader, reset |-> NoHeader, body |-> Garbage]

Response(status, retryAfter, remaining, reset, body) ==
    [transport |-> FALSE, status |-> status, retryAfter |-> retryAfter,
     remaining |-> remaining, reset |-> reset, body |-> body]

\* variant: a decoder that accepts every body and stores nothing
DecodeNothing(body) == [ok |-> TRUE, val |-> <<>>]

\* json.NewDecoder(resp.Body).Decode(out)
Decode(body) == [ok |-> body.json, val |-> body.val]

----------------------------------------------------------------------------
(* Client (src/unnamed/part_000) *)

\* The state a get call works on: the Client's fields, the clock, and in c the
\* call's own position and what it has done so far.
\*   attempt   the loop variable         requests  httpClient.Do calls made
\*   sleeps    time.Sleep calls made after a response
\*   waited    the preemptive wait of the call (0: none)
\*   last      the latest answer of httpClient.Do
\*   before    the clock when the latest answer arrived
\*   n429, nPrimary   rate-limited answers of each kind so far
\*   rl        the tracked rate-limit state when the latest answer arrived
NewClient == [rem |-> 0 - 1, reset |-> ZeroTime]

NewCall ==
    [attempt |-> 0, requests |-> 0, sleeps |-> 0, waited |-> 0, err |-> "",
     done |-> FALSE, out |-> <<>>, last |-> TransportError, before |-> 0,
     n429 |-> 0, nPrimary |-> 0, rl |-> NewClient]

\* variant: a reset header that is absent or does not parse clears the
\* tracked reset time
updateRateLimitClearingReset(s, resp) ==
    LET n == ParseInt(resp.remaining)
        unix == ParseInt(resp.reset)
    IN  [s EXCEPT
           !.rem = IF resp.remaining # NoHeader /\ n.ok THEN n.val ELSE @,
           !.reset = IF resp.reset # NoHeader /\ unix.ok
                     THEN TimeUnix(unix.val) ELSE ZeroTime]

updateRateLimit(s, resp) ==
    LET n == ParseInt(resp.remaining)
        unix == ParseInt(resp.reset)
    IN  [s EXCEPT
           !.rem = IF resp.remaining # NoHeader /\ n.ok THEN n.val ELSE @,
           !.reset = IF resp.reset # NoHeader /\ unix.ok
                     THEN TimeUnix(unix.val) ELSE @]

\* the Duration sleepSecondaryRateLimit sleeps for and returns
sleepSecondaryRateLimit(resp) ==
    LET secs == ParseInt(resp.retryAfter)
    IN  IF resp.retryAfter # NoHeader /\ secs.ok /\ secs.val > 0
        THEN WrapDuration(secs.val * Second)
        ELSE defaultFallbackSleep

\* the Duration sleepPrimaryRateLimit, called at instant t0, sleeps for and
\* returns
sleepPrimaryRateLimit(resp, t0) ==
    LET unix == ParseInt(resp.reset)
        d == WrapDuration(TimeUntil(TimeUnix(unix.val), t0) + rateLimitResetBuffer)
    IN  IF resp.reset # NoHeader /\ unix.ok /\ d > 0
        THEN d
        ELSE defaultFallbackSleep

\* get, lines 111-119: the wait before the first request
PreemptiveWait(s) ==
    LET d == WrapDuration(TimeUntil(s.reset, s.now) + rateLimitResetBuffer)
    IN  IF s.rem = 0 /\ d > 0 THEN d ELSE 0

BeginGet(s) ==
    LET d == PreemptiveWait(s)
    IN  [s EXCEPT !.now = SleepUntil(@, d), !.c = [NewCall EXCEPT !.waited = d]]

\* variant: the attempt in progress is not counted as used
RetriesRemainingWithThisOne(attempt) == maxRetries - attempt

RetriesRemaining(attempt) == maxRetries - attempt - 1

\* variant: every 403 is taken for the primary rate limit
EveryForbiddenIsRateLimit(resp) == TRUE

\* get, line 152: `resp.Header.Get("X-RateLimit-Remaining") != "0"` is false
IsPrimaryRateLimit(resp) == resp.remaining = <<"0">>

Return(s, e) == [s EXCEPT !.c.done = TRUE, !.c.err = e]

\* the end of one pass of the for loop that did not return
NextAttempt(s) ==
    IF s.c.attempt + 1 < maxRetries
    THEN [s EXCEPT !.c.attempt = @ + 1]
    ELSE Return(s, "exceeded max retries")

\* httpClient.Do has answered with resp
Received(s, resp) ==
    [s EXCEPT !.c.requests = @ + 1,
              !.c.last = resp,
              !.c.before = s.now,
              !.c.rl = [rem |-> s.rem, reset |-> s.reset]]

\* variant: a transport error uses up an attempt and is retried
RetryTransportError(s) == NextAttempt(s)

OnTransportError(s) == Return(s, "transport")

OnStatusOK(s, resp) ==
    LET u == updateRateLimit(s, resp)
        d == Decode(resp.body)
    IN  IF d.ok THEN Return([u EXCEPT !.c.out = d.val], "")
        ELSE Return(u, "decode")

\* variant: the last 429 fails the call before the sleep
FailFastOnTooManyRequests(s, resp) ==
    IF RetriesRemaining(s.c.attempt) = 0
    THEN Return([s EXCEPT !.c.n429 = @ + 1], "secondary rate limited")
    ELSE NextAttempt([s EXCEPT
            !.now = SleepUntil(@, sleepSecondaryRateLimit(resp)),
            !.c.sleeps = @ + 1, !.c.n429 = @ + 1])

\* variant: a 429 does not use up an attempt, the call gives up at the fourth
UncountedTooManyRequests(s, resp) ==
    LET s1 == [s EXCEPT !.now = SleepUntil(@, sleepSecondaryRateLimit(resp)),
                        !.c.sleeps = @ + 1, !.c.n429 = @ + 1]
    IN  IF s.c.requests > maxRetries THEN Return(s1, "secondary rate limited")
        ELSE s1

OnTooManyRequests(s, resp) ==
    LET waited == sleepSecondaryRateLimit(resp)
        s1 == [s EXCEPT !.now = SleepUntil(@, waited),
                        !.c.sleeps = @ + 1, !.c.n429 = @ + 1]
    IN  IF RetriesRemaining(s.c.attempt) = 0
        THEN Return(s1, "secondary rate limited")
        ELSE NextAttempt(s1)

\* variant: the headers of a rate-limited 403 update the tracked state
TrackingOnForbidden(s, resp) ==
    IF ~IsPrimaryRateLimit(resp)
    THEN Return(s, "unexpected status")
    ELSE LET waited == sleepPrimaryRateLimit(resp, s.now)
             u == updateRateLimit(s, resp)
             s1 == [u EXCEPT !.now = SleepUntil(@, waited),
                             !.c.sleeps = @ + 1, !.c.nPrimary = @ + 1]
         IN  IF RetriesRemaining(s.c.attempt) = 0
             THEN Return(s1, "primary rate limited")
             ELSE NextAttempt(s1)

OnForbidden(s, resp) ==
    IF ~IsPrimaryRateLimit(resp)
    THEN Return(s, "unexpected status")
    ELSE LET waited == sleepPrimaryRateLimit(resp, s.now)
             s1 == [s EXCEPT !.now = SleepUntil(@, waited),
                             !.c.sleeps = @ + 1, !.c.nPrimary = @ + 1]
         IN  IF RetriesRemaining(s.c.attempt) = 0
             THEN Return(s1, "primary rate limited")
             ELSE NextAttempt(s1)

\* variant: an unexpected status is retried
RetryOtherStatus(s, resp) == NextAttempt(s)

OnOtherStatus(s, resp) == Return(s, "unexpected status")

\* one pass of the for loop of get, given what httpClient.Do answers
Attempt(s, resp) ==
    LET r == Received(s, resp)
    IN  IF resp.transport THEN OnTransportError(r)
        ELSE IF resp.status = StatusOK THEN OnStatusOK(r, resp)
        ELSE IF resp.status = StatusTooManyRequests THEN OnTooManyRequests(r, resp)
        ELSE IF resp.status = StatusForbidden THEN OnForbidden(r, resp)
        ELSE OnOtherStatus(r, resp)

\* a whole get call, answered by the responses rs in turn
RECURSIVE RunAttempts(_, _)
RunAttempts(s, rs) ==
    IF s.c.done \/ rs = <<>> THEN s
    ELSE RunAttempts(Attempt(s, Head(rs)), Tail(rs))

get(s, rs) == RunAttempts(BeginGet(s), rs)

----------------------------------------------------------------------------
(* State *)

VARIABLES
    rateLimitRemaining,  \* Client.rateLimitRemaining
    rateLimitReset,      \* Client.rateLimitReset, in ticks
    now,                 \* the clock, in ticks
    gpc,                 \* SpecGet: "idle", "loop" (inside get's for loop), "done"
    call,                \* SpecGet: the call in progress or just returned
    calls,               \* SpecGet: get calls started
    past,                \* SpecGet, history: whether the call before failed on
                         \* the primary rate limit (kept until the first
                         \* answer of the next call), and whether a 200 has
                         \* carried an X-RateLimit-Remaining of 0 so far
    wpc,                 \* worker: "seats", "users", "lock", "reset", "set", "sleep"
    cycle,               \* collection cycles started
    page,                \* ListCopilotSeats: page
    logins,              \* ListCopilotSeats / collect: logins
    idx,                 \* collect: position of the range over logins
    entries,             \* collect: entries
    pos,                 \* collect: <<entry, statement>> of the publish loop, or
                         \* <<0, n>> for the n-th Reset
    result,              \* what the latest collect returned: "", "ok", "err"
    writer,              \* collectMu is write-locked
    writerWaiting,       \* collectMu.Lock() has been called and is blocked
    readers,             \* the scrapes holding collectMu.RLock
    blocked,             \* the scrapes that have called collectMu.RLock() and
                         \* are blocked in it
    gauges,              \* the three GaugeVecs: name -> (labels -> value)
    obs,                 \* scrape -> what it has gathered so far
    began,               \* history: scrape -> the snapshot exposed at its RLock
    exposed,             \* history: the entries of the latest publish
    cyc                  \* history of the current cycle: the answers to its
                         \* seat and usage calls, the gauges and the snapshot
                         \* exposed at its start, whether it took the lock

clientvars == <<rateLimitRemaining, rateLimitReset, now>>
getvars == <<gpc, call, calls, past>>
workervars == <<wpc, cycle, page, logins, idx, entries, pos, result>>
lockvars == <<writer, writerWaiting, readers, blocked>>
sysvars == <<workervars, lockvars, gauges, obs, began, exposed, cyc>>
vars == <<clientvars, getvars, sysvars>>

\* the Client and the clock as the record the get operators work on
ClientState(c) ==
    [rem |-> rateLimitRemaining, reset |-> rateLimitReset, now |-> now, c |-> c]

SetClient(s) ==
    /\ rateLimitRemaining' = s.rem
    /\ rateLimitReset' = s.reset
    /\ now' = s.now

----------------------------------------------------------------------------
(* Inputs of SpecGet: what the API may answer to one request *)

\* the clock at start-up: unix second 100
Now0 == TimeUnix(100)

RetryAfterVals ==
    {NoHeader, <<"x">>, <<"0">>, <<"-", "1">>, <<"2">>, <<"+", "2">>,
     <<"6", "0", "0">>}
RemainingVals == {NoHeader, <<"x">>, <<"0">>, <<"0", "0">>, <<"7">>}
ResetVals ==
    {NoHeader, <<"x">>, <<"9", "0">>, <<"1", "3", "0">>, <<"7", "0", "0">>}
OtherStatuses == {304, 404, 500}

\* 200: every pair of rate-limit headers with a body that decodes, and one
\* response whose body does not
Resp200 ==
    {Response(StatusOK, NoHeader, rem, rst, Body(<<"json">>)) :
        rem \in RemainingVals, rst \in ResetVals}
    \cup {Response(StatusOK, NoHeader, NoHeader, NoHeader, Garbage)}
Resp429 ==
    {Response(StatusTooManyRequests, ra, NoHeader, NoHeader, Garbage) :
        ra \in RetryAfterVals}
\* 403: every X-RateLimit-Remaining, with every X-RateLimit-Reset when it is
\* "0" and with two of them otherwise
Resp403 ==
    {Response(StatusForbidden, NoHeader, rem, rst, Garbage) :
        rem \in RemainingVals,
        rst \in ResetVals} \
    {Response(StatusForbidden, NoHeader, rem, rst, Garbage) :
        rem \in RemainingVals \ {<<"0">>},
        rst \in ResetVals \ {NoHeader, <<"1", "3", "0">>}}
RespOther ==
    {Response(st, NoHeader, NoHeader, NoHeader, Garbage) : st \in OtherStatuses}

----------------------------------------------------------------------------
(* SpecGet: get calls made one after another on one Client, one action per  *)
(* answer of httpClient.Do                                                  *)

\* a caller enters get: the preemptive wait, then the for loop
GetCall ==
    /\ gpc = "idle"
    /\ calls < MaxCalls
    /\ LET s == BeginGet(ClientState(call))
       IN  SetClient(s) /\ call' = s.c
    /\ gpc' = "loop"
    /\ calls' = calls + 1
    /\ UNCHANGED <<past, sysvars>>

\* resp is a 200 whose X-RateLimit-Remaining updateRateLimit reads as 0
RecordsZero(resp) ==
    /\ ~resp.transport
    /\ resp.status = StatusOK
    /\ resp.remaining # NoHeader
    /\ ParseInt(resp.remaining) = [ok |-> TRUE, val |-> 0]

\* one pass of the for loop, httpClient.Do answering resp
GetAttempt(resp) ==
    LET s == Attempt(ClientState(call), resp)
    IN  /\ SetClient(s)
        /\ call' = s.c
        /\ gpc' = IF s.c.done THEN "done" ELSE "loop"
        /\ past' = [afterPrimary |-> FALSE, zero |-> past.zero \/ RecordsZero(resp)]
        /\ UNCHANGED <<calls, sysvars>>

GetTransportError ==
    /\ gpc = "loop"
    /\ GetAttempt(TransportError)

GetStatusOK ==
    /\ gpc = "loop"
    /\ \E resp \in Resp200 : GetAttempt(resp)

GetTooManyRequests ==
    /\ gpc = "loop"
    /\ \E resp \in Resp429 : GetAttempt(resp)

GetForbidden ==
    /\ gpc = "loop"
    /\ \E resp \in Resp403 : GetAttempt(resp)

GetOtherStatus ==
    /\ gpc = "loop"
    /\ \E resp \in RespOther : GetAttempt(resp)

\* get has returned to its caller
GetReturn ==
    /\ gpc = "done"
    /\ gpc' = "idle"
    /\ call' = NewCall
    /\ past' = [past EXCEPT !.afterPrimary = (call.err = "primary rate limited")]
    /\ UNCHANGED <<clientvars, calls, sysvars>>

NextGet ==
    \/ GetCall
    \/ GetTransportError
    \/ GetStatusOK
    \/ GetTooManyRequests
    \/ GetForbidden
    \/ GetOtherStatus
    \/ GetReturn

----------------------------------------------------------------------------
(* Inputs of Spec: what the API answers to one whole get call *)

Enterprise == "ent"
\* the logins of the enterprise, in the order the seats endpoint lists them
Users == <<"a", "b", "c">>
Scrapes == {"s1", "s2"}

\* SeatsResponse.Seats of page p when it holds n seats
SeatPage(p, n) == [i \in 1..n |-> Users[(p - 1) * perPage + i]]

UsageItem(sku, model, q, a, d) ==
    [SKU |-> sku, Model |-> model, GrossQuantity |-> q, GrossAmount |-> a,
     DiscountAmount |-> d]

\* UsageResponse.UsageItems of a user: two SKUs, the first billed in two lines
UsageItems ==
    <<UsageItem("s1", "m1", 1, 2, 3), UsageItem("s2", "m1", 7, 8, 9),
      UsageItem("s1", "m1", 4, 5, 6)>>

Ok(body) == Response(StatusOK, NoHeader, <<"0">>, <<"1", "3", "0">>, body)
Secondary == Response(StatusTooManyRequests, NoHeader, NoHeader, NoHeader, Garbage)
Primary == Response(StatusForbidden, NoHeader, <<"0">>, NoHeader, Garbage)
ServerError == Response(500, NoHeader, NoHeader, NoHeader, Garbage)

\* answers that make a get call fail
FailAnswers ==
    {<<Secondary, Secondary, Secondary>>, <<Primary, Primary, Primary>>,
     <<ServerError>>}

\* what the API may answer to the request for page p, n0 seats being listed
SeatAnswers(p, n0) ==
    FailAnswers \cup
    {<<Ok(Body(SeatPage(p, n)))>> : n \in {m \in 0..perPage : n0 + m <= Len(Users)}}

\* what the API may answer to the request for a user's usage: the usage
\* items, a server error, or rate limits of both kinds until the retries are
\* used up
UserAnswers ==
    {<<Ok(Body(UsageItems))>>, <<ServerError>>, <<Secondary, Secondary, Primary>>}

----------------------------------------------------------------------------
(* internal/metrics.go: the three GaugeVecs *)

GaugeVecs == <<"RequestAmount", "RequestCostGross", "RequestCostDiscount">>
GaugeNames == {GaugeVecs[i] : i \in 1..Len(GaugeVecs)}

\* a GaugeVec without series
NoSeries == <<>>

\* variant: a Reset that leaves the series in place
ResetNothing(gs, name) == gs

\* GaugeVec.Reset()
Reset(gs, name) == [gs EXCEPT ![name] = NoSeries]

\* GaugeVec.With(labels).Set(v)
Set(gs, name, labels, v) == [gs EXCEPT ![name] = (labels :> v) @@ @]

----------------------------------------------------------------------------
(* cmd/main.go (src/unnamed/part_002) *)

\* the metricEntry collect builds of one usage item
metricEntry(login, item) ==
    [labels |-> <<login, item.SKU, item.Model, Enterprise>>,
     grossQuantity |-> item.GrossQuantity,
     grossAmount |-> item.GrossAmount,
     discountAmount |-> item.DiscountAmount]

\* the value the publish loop sets on the n-th GaugeVec for entry e
EntryValue(e, n) ==
    IF n = 1 THEN e.grossQuantity
    ELSE IF n = 2 THEN e.grossAmount
    ELSE e.discountAmount

\* variant: a worker that does not sleep between two cycles
NoSleepInterval == WrapDuration(0 * Second)

\* worker: sleepInterval
sleepInterval == WrapDuration(WorkerInterval * Second)

\* sync.RWMutex: Lock proceeds once no reader and no writer holds the lock;
\* RLock proceeds unless a writer holds the lock or waits for it
\* variant: a Lock that does not wait for the readers
CanLockBesideReaders == ~writer

CanLock == readers = {} /\ ~writer

\* variant: a metricsHandler that does not wait for the lock
CanRLockAlways == TRUE

\* variant: an RLock that does not give way to a waiting Lock
CanRLockBesideWaitingLock == ~writer

CanRLock == ~writer /\ ~writerWaiting

\*   pages     the page numbers ListCopilotSeats has requested
\*   after     what the cycle before returned ("": there was none)
\*   since     the clock when the cycle before returned
NewCycle(gs, snap, res, t) ==
    [seatAns |-> <<>>, userAns |-> <<>>, atStart |-> gs, prevSnap |-> snap,
     locked |-> FALSE, pages |-> <<>>, after |-> res, since |-> t]

\* variant: ListCopilotSeats stops after every page
AlwaysLastPage(seats) == TRUE

\* ListCopilotSeats, line 197: `len(resp.Seats) < perPage`
LastPage(seats) == Len(seats) < perPage

\* variant: ListCopilotSeats drops the error of get
ListSeatsNeverFailed(s) == FALSE

\* ListCopilotSeats: `if err := c.get(url, &resp); err != nil`
ListSeatsFailed(s) == s.c.err # ""

\* variant: collect drops the error of ListCopilotSeats
CollectNeverFailed(listErr) == FALSE

\* collect: `if err != nil` after ListCopilotSeats
CollectFailed(listErr) == listErr

\* collect: `if err != nil` after GetUserPremiumUsage
UserFailed(s) == s.c.err # ""

\* variant: a failed user ends the range over logins
BreakAfterFailedUser(i) == Len(logins) + 1

\* collect: where the range over logins goes on after a failed user at i
AfterFailedUser(i) == i + 1


\* collect, line 77: one request of ListCopilotSeats, and, when that was the
\* last one, the return of ListCopilotSeats into collect
CollectSeats ==
    /\ wpc = "seats"
    /\ \E ans \in SeatAnswers(page, Len(logins)) :
          LET s == get(ClientState(NewCall), ans)
              failed == ListSeatsFailed(s)
              all == logins \o s.c.out
              more == ~failed /\ ~LastPage(s.c.out)
          IN  /\ SetClient(s)
              /\ cyc' = [cyc EXCEPT !.seatAns = Append(@, ans),
                                   !.pages = Append(@, page)]
              /\ IF more
                 THEN /\ page' = page + 1
                      /\ logins' = all
                      /\ UNCHANGED <<wpc, idx, entries, result>>
                 ELSE IF CollectFailed(failed)
                 THEN /\ wpc' = "sleep"
                      /\ result' = "err"
                      /\ UNCHANGED <<page, logins, idx, entries>>
                 ELSE /\ wpc' = "users"
                      /\ logins' = IF failed THEN <<>> ELSE all
                      /\ idx' = 1
                      /\ entries' = <<>>
                      /\ UNCHANGED <<page, result>>
    /\ UNCHANGED <<getvars, cycle, pos, lockvars, gauges, obs, began, exposed>>

\* collect, lines 85-105: one pass of the range over logins
CollectUser ==
    /\ wpc = "users"
    /\ idx <= Len(logins)
    /\ \E ans \in UserAnswers :
          LET s == get(ClientState(NewCall), ans)
              login == logins[idx]
          IN  /\ SetClient(s)
              /\ cyc' = [cyc EXCEPT !.userAns = Append(@, ans)]
              /\ IF UserFailed(s)
                 THEN /\ idx' = AfterFailedUser(idx)
                      /\ UNCHANGED entries
                 ELSE /\ idx' = idx + 1
                      /\ entries' = entries \o
                            [i \in 1..Len(s.c.out) |-> metricEntry(login, s.c.out[i])]
    /\ UNCHANGED <<getvars, wpc, cycle, page, logins, pos, result, lockvars,
                   gauges, obs, began, exposed>>

\* collect, line 107: collectMu.Lock() is called
CollectLock ==
    /\ wpc = "users"
    /\ idx > Len(logins)
    /\ wpc' = "lock"
    /\ writerWaiting' = TRUE
    /\ UNCHANGED <<clientvars, getvars, cycle, page, logins, idx, entries, pos,
                   result, writer, readers, blocked, gauges, obs, began,
                   exposed, cyc>>

\* collect, line 107: collectMu.Lock() returns
CollectLocked ==
    /\ wpc = "lock"
    /\ CanLock
    /\ writer' = TRUE
    /\ writerWaiting' = FALSE
    /\ wpc' = "reset"
    /\ pos' = <<0, 1>>
    /\ cyc' = [cyc EXCEPT !.locked = TRUE]
    /\ UNCHANGED <<clientvars, getvars, cycle, page, logins, idx, entries,
                   result, readers, blocked, gauges, obs, began, exposed>>

\* collect, lines 110-112: one of the three Reset calls
PublishReset ==
    /\ wpc = "reset"
    /\ gauges' = Reset(gauges, GaugeVecs[pos[2]])
    /\ IF pos[2] < Len(GaugeVecs)
       THEN pos' = <<0, pos[2] + 1>> /\ UNCHANGED wpc
       ELSE pos' = <<1, 1>> /\ wpc' = "set"
    /\ UNCHANGED <<clientvars, getvars, cycle, page, logins, idx, entries,
                   result, lockvars, obs, began, exposed, cyc>>

\* collect, lines 114-118: one of the three Set calls of one entry
PublishSet ==
    /\ wpc = "set"
    /\ pos[1] <= Len(entries)
    /\ LET e == entries[pos[1]]
       IN  gauges' = Set(gauges, GaugeVecs[pos[2]], e.labels, EntryValue(e, pos[2]))
    /\ pos' = IF pos[2] < Len(GaugeVecs) THEN <<pos[1], pos[2] + 1>>
              ELSE <<pos[1] + 1, 1>>
    /\ UNCHANGED <<clientvars, getvars, wpc, cycle, page, logins, idx, entries,
                   result, lockvars, obs, began, exposed, cyc>>

\* collect, lines 108 and 120: return nil, the deferred collectMu.Unlock(),
\* which hands the read lock to every scrape blocked in RLock
CollectUnlock ==
    /\ wpc = "set"
    /\ pos[1] > Len(entries)
    /\ writer' = FALSE
    /\ readers' = readers \cup blocked
    /\ blocked' = {}
    /\ began' = [sc \in Scrapes |-> IF sc \in blocked THEN entries ELSE began[sc]]
    /\ result' = "ok"
    /\ wpc' = "sleep"
    /\ exposed' = entries
    /\ UNCHANGED <<clientvars, getvars, cycle, page, logins, idx, entries, pos,
                   writerWaiting, gauges, obs, cyc>>

\* worker, line 72, and the start of the next pass of its loop
WorkerSleep ==
    /\ wpc = "sleep"
    /\ cycle < MaxCycles
    /\ now' = SleepUntil(now, sleepInterval)
    /\ cycle' = cycle + 1
    /\ wpc' = "seats"
    /\ page' = 1
    /\ logins' = <<>>
    /\ idx' = 1
    /\ entries' = <<>>
    /\ result' = ""
    /\ cyc' = NewCycle(gauges, exposed, result, now)
    /\ UNCHANGED <<rateLimitRemaining, rateLimitReset, getvars, pos, lockvars,
                   gauges, obs, began, exposed>>

\* metricsHandler, line 46: collectMu.RLock() is called while the worker
\* holds the lock or waits for it, and blocks
ScrapeBlocked(sc) ==
    /\ sc \notin readers \cup blocked
    /\ ~CanRLock
    /\ blocked' = blocked \cup {sc}
    /\ UNCHANGED <<clientvars, getvars, workervars, writer, writerWaiting,
                   readers, gauges, obs, began, exposed, cyc>>

\* metricsHandler, line 46: collectMu.RLock() is called and returns at once
ScrapeRLock(sc) ==
    /\ sc \notin readers \cup blocked
    /\ CanRLock
    /\ readers' = readers \cup {sc}
    /\ began' = [began EXCEPT ![sc] = exposed]
    /\ UNCHANGED <<clientvars, getvars, workervars, writer, writerWaiting,
                   blocked, gauges, obs, exposed, cyc>>

\* metricsHandler, line 48: the handler gathers one of the GaugeVecs
ScrapeGather(sc) ==
    /\ sc \in readers
    /\ \E g \in GaugeNames \ DOMAIN obs[sc] :
          obs' = [obs EXCEPT ![sc] = (g :> gauges[g]) @@ @]
    /\ UNCHANGED <<clientvars, getvars, workervars, lockvars, gauges, began,
                   exposed, cyc>>

\* metricsHandler, line 47: the response is written, collectMu.RUnlock()
ScrapeRUnlock(sc) ==
    /\ sc \in readers
    /\ DOMAIN obs[sc] = GaugeNames
    /\ readers' = readers \ {sc}
    /\ obs' = [obs EXCEPT ![sc] = <<>>]
    /\ began' = [began EXCEPT ![sc] = <<>>]
    /\ UNCHANGED <<clientvars, getvars, workervars, writer, writerWaiting,
                   blocked, gauges, exposed, cyc>>

\* main, worker: the worker about to call collect for the first time, no
\* scrape in progress, the GaugeVecs without series
InitWorker ==
    /\ wpc = "seats"
    /\ cycle = 1
    /\ page = 1
    /\ logins = <<>>
    /\ idx = 1
    /\ entries = <<>>
    /\ pos = <<0, 1>>
    /\ result = ""
    /\ writer = FALSE
    /\ writerWaiting = FALSE
    /\ readers = {}
    /\ blocked = {}
    /\ gauges = [g \in GaugeNames |-> NoSeries]
    /\ obs = [sc \in Scrapes |-> <<>>]
    /\ began = [sc \in Scrapes |-> <<>>]
    /\ exposed = <<>>
    /\ cyc = NewCycle([g \in GaugeNames |-> NoSeries], <<>>, "", Now0)

Init ==
    /\ rateLimitRemaining = NewClient.rem
    /\ rateLimitReset = NewClient.reset
    /\ now = Now0
    /\ gpc = "idle"
    /\ call = NewCall
    /\ calls = 0
    /\ past = [afterPrimary |-> FALSE, zero |-> FALSE]
    /\ InitWorker

\* the values 200 responses of earlier calls can have left in the Client
TrackedRemaining ==
    {NewClient.rem} \cup
    {ParseInt(h).val : h \in {r \in RemainingVals : r # NoHeader /\ ParseInt(r).ok}}
TrackedReset ==
    {NewClient.reset} \cup
    {TimeUnix(ParseInt(h).val) :
        h \in {r \in ResetVals : r # NoHeader /\ ParseInt(r).ok}}

\* a Client in any state earlier calls can have left it in, one call to go
InitLastCall ==
    /\ rateLimitRemaining \in TrackedRemaining
    /\ rateLimitReset \in TrackedReset
    /\ now = Now0
    /\ gpc = "idle"
    /\ call = NewCall
    /\ calls = MaxCalls - 1
    /\ past = [afterPrimary |-> FALSE, zero |-> rateLimitRemaining = 0]
    /\ InitWorker

Next ==
    \/ CollectSeats
    \/ CollectUser
    \/ CollectLock
    \/ CollectLocked
    \/ PublishReset
    \/ PublishSet
    \/ CollectUnlock
    \/ WorkerSleep
    \/ \E sc \in Scrapes : ScrapeBlocked(sc)
    \/ \E sc \in Scrapes : ScrapeRLock(sc)
    \/ \E sc \in Scrapes : ScrapeGather(sc)
    \/ \E sc \in Scrapes : ScrapeRUnlock(sc)

NextCollect ==
    \/ CollectSeats
    \/ CollectUser
    \/ CollectLock
    \/ CollectLocked
    \/ PublishReset
    \/ PublishSet
    \/ CollectUnlock
    \/ WorkerSleep

\* the worker and the scrapes
Spec == Init /\ [][Next]_vars

\* the worker alone: no scrape arrives
SpecCollect == Init /\ [][NextCollect]_vars

\* the Client alone
SpecGet == Init /\ [][NextGet]_vars

\* one call of get on a Client earlier calls have used, every request it
\* issues being answered, by a response or by a transport error
GetAnswered ==
    \/ GetTransportError
    \/ GetStatusOK
    \/ GetTooManyRequests
    \/ GetForbidden
    \/ GetOtherStatus

SpecGetAnswered == InitLastCall /\ [][NextGet]_vars /\ WF_vars(GetAnswered)

\* one collection cycle with scrapes arriving at any moment, those that find
\* the lock taken or asked for blocking in RLock
NextLock ==
    \/ CollectSeats
    \/ CollectUser
    \/ CollectLock
    \/ CollectLocked
    \/ PublishReset
    \/ PublishSet
    \/ CollectUnlock
    \/ \E sc \in Scrapes : ScrapeBlocked(sc)
    \/ \E sc \in Scrapes : ScrapeRLock(sc)
    \/ \E sc \in Scrapes : ScrapeGather(sc)
    \/ \E sc \in Scrapes : ScrapeRUnlock(sc)

\* the steps that need nothing from outside the process go on: a Lock that
\* can return does, the publish runs to its Unlock, a scrape holding the
\* lock gathers and returns; the calls of the Client may take any time
SpecLock ==
    /\ Init
    /\ [][NextLock]_vars
    /\ WF_vars(CollectLocked)
    /\ WF_vars(PublishReset)
    /\ WF_vars(PublishSet)
    /\ WF_vars(CollectUnlock)
    /\ \A sc \in Scrapes : WF_vars(ScrapeGather(sc))
    /\ \A sc \in Scrapes : WF_vars(ScrapeRUnlock(sc))

\* the worker alone, its time.Sleep returning: worker is a goroutine of its
\* own that nothing but the end of the interval holds up at line 72
SpecWorker == SpecCollect /\ WF_vars(WorkerSleep)

----------------------------------------------------------------------------
(* What the claims speak of *)

GaugeIndex(g) == CHOOSE n \in 1..Len(GaugeVecs) : GaugeVecs[n] = g

\* the value a snapshot gives a label set on the n-th gauge: that of its last
\* entry with these labels
ValueIn(snap, labels, n) ==
    LET last == CHOOSE i \in 1..Len(snap) :
                   /\ snap[i].labels = labels
                   /\ \A j \in (i + 1)..Len(snap) : snap[j].labels # labels
        e == snap[last]
    IN  CASE n = 1 -> e.grossQuantity [] n = 2 -> e.grossAmount
          [] n = 3 -> e.discountAmount

\* the gauge state that exposes exactly the snapshot snap
GaugesOf(snap) ==
    [g \in GaugeNames |->
        [labels \in {snap[i].labels : i \in 1..Len(snap)} |->
            ValueIn(snap, labels, GaugeIndex(g))]]

\* a response that reports a rate limit, secondary or primary
IsRateLimited(resp) ==
    /\ ~resp.transport
    /\ \/ resp.status = 429
       \/ resp.status = 403 /\ resp.remaining = <<"0">>

\* the answers to a get call that ended in success
AnswerOK(ans) ==
    LET final == ans[Len(ans)]
    IN  ~final.transport /\ final.status = 200 /\ final.body.json

\* the answers to a get call that used up its retries on rate limits
RateLimitExhausted(ans) ==
    Len(ans) = 3 /\ \A i \in 1..3 : IsRateLimited(ans[i])

SeatListingFailed == \E i \in 1..Len(cyc.seatAns) : ~AnswerOK(cyc.seatAns[i])
CycleEnded == wpc = "sleep" /\ result # ""

\* the observations of the users of ls whose usage call was answered with
\* success, in the order of ls
RECURSIVE ObservationsOf(_, _)
ObservationsOf(ls, answers) ==
    IF ls = <<>> \/ answers = <<>> THEN <<>>
    ELSE LET items == Head(answers)[Len(Head(answers))].body.val
             mine == IF AnswerOK(Head(answers))
                     THEN [k \in 1..Len(items) |->
                             [labels |-> <<Head(ls), items[k].SKU, items[k].Model,
                                           Enterprise>>,
                              grossQuantity |-> items[k].GrossQuantity,
                              grossAmount |-> items[k].GrossAmount,
                              discountAmount |-> items[k].DiscountAmount]]
                     ELSE <<>>
         IN  mine \o ObservationsOf(Tail(ls), Tail(answers))

----------------------------------------------------------------------------
(* Claims *)

\* C1: whatever a scrape has gathered so far is, on every gauge it has read,
\* the gauge state of one complete snapshot: the one that was exposed when
\* the scrape took the lock or the one exposed now; it never sees a gauge
\* that was reset and not yet, or only partly, repopulated.
Thm_C1 ==
    \A sc \in Scrapes :
        \E snap \in {began[sc], exposed} :
            \A g \in DOMAIN obs[sc] : obs[sc][g] = GaugesOf(snap)[g]

\* a scrape holds a complete reading of a non-empty snapshot while the worker
\* waits for the lock to publish the next one
Witness_C1 ==
    \E sc \in readers :
        /\ DOMAIN obs[sc] = GaugeNames
        /\ exposed # <<>>
        /\ wpc = "lock"
        /\ entries # exposed

\* C2: when collect has returned nil after publishing its entries, the three
\* gauges hold exactly the label sets of these entries with their values and
\* nothing of what was exposed before; if the entries equal the snapshot
\* exposed before, the gauges are as they were before the publish.
Thm_C2 ==
    result = "ok" =>
        /\ gauges = GaugesOf(entries)
        /\ entries = cyc.prevSnap => gauges = cyc.atStart

\* a publish of fewer, but some, series than the snapshot it replaces
Witness_C2 ==
    /\ result = "ok"
    /\ entries # <<>>
    /\ Len(entries) < Len(cyc.prevSnap)

\* C3: a cycle whose seat listing succeeded ends with collect returning nil,
\* after one usage call per listed login, and publishes exactly the
\* observations of the logins whose call succeeded, in seat order.
Thm_C3 ==
    (CycleEnded /\ ~SeatListingFailed) =>
        /\ result = "ok"
        /\ Len(cyc.userAns) = Len(logins)
        /\ entries = ObservationsOf(logins, cyc.userAns)
        /\ exposed = entries
        /\ gauges = GaugesOf(entries)

\* the first of two users failed, the second was still fetched and published
Witness_C3 ==
    /\ CycleEnded
    /\ ~SeatListingFailed
    /\ Len(logins) = 2
    /\ Len(cyc.userAns) = 2
    /\ ~AnswerOK(cyc.userAns[1])
    /\ AnswerOK(cyc.userAns[2])
    /\ entries # <<>>

\* C4: once a page of the seat listing has failed, collect has returned an
\* error, has made no usage call, has not taken collectMu, and the gauges are
\* those of the start of the cycle.
Thm_C4 ==
    SeatListingFailed =>
        /\ CycleEnded
        /\ result = "err"
        /\ cyc.userAns = <<>>
        /\ ~cyc.locked
        /\ ~writer /\ ~writerWaiting
        /\ gauges = cyc.atStart
        /\ exposed = cyc.prevSnap

\* the second page failed while a non-empty snapshot was exposed
Witness_C4 ==
    /\ SeatListingFailed
    /\ Len(cyc.seatAns) = 2
    /\ exposed # <<>>
    /\ gauges = GaugesOf(exposed)

\* C5, as claimed: a cycle in which a get call, for a seat page or for a
\* user, used up its retries on rate limits ends with an error, publishes
\* nothing and leaves the gauges as they were.
Orig_C5 ==
    (/\ CycleEnded
     /\ \/ \E i \in 1..Len(cyc.seatAns) : RateLimitExhausted(cyc.seatAns[i])
        \/ \E i \in 1..Len(cyc.userAns) : RateLimitExhausted(cyc.userAns[i]))
    => (result = "err" /\ ~cyc.locked /\ gauges = cyc.atStart)

\* C5, amended: a seat page call that used up its retries on rate limits ends
\* the cycle with an error, nothing published, the gauges as they were; a
\* usage call that did so does not: the cycle ends with nil and publishes the
\* observations of the other users.
Thm_C5 ==
    /\ (\E i \in 1..Len(cyc.seatAns) : RateLimitExhausted(cyc.seatAns[i])) =>
          /\ CycleEnded
          /\ result = "err"
          /\ ~cyc.locked
          /\ gauges = cyc.atStart
          /\ exposed = cyc.prevSnap
    /\ (/\ CycleEnded
        /\ \E i \in 1..Len(cyc.userAns) : RateLimitExhausted(cyc.userAns[i])) =>
          /\ result = "ok"
          /\ cyc.locked
          /\ exposed = ObservationsOf(logins, cyc.userAns)
          /\ gauges = GaugesOf(exposed)

\* a seat page call ran out of retries while a non-empty snapshot was exposed
Witness_C5 ==
    /\ \E i \in 1..Len(cyc.seatAns) : RateLimitExhausted(cyc.seatAns[i])
    /\ exposed # <<>>
    /\ gauges = GaugesOf(exposed)
    /\ cycle > 1

----------------------------------------------------------------------------
(* Claims about get, under SpecGet *)

\* the call in progress has had an answer, and the latest is a response
Answered == call.requests > 0 /\ ~call.last.transport

\* a status that is neither 200, nor 429, nor 403 with X-RateLimit-Remaining "0"
IsOtherResponse(resp) ==
    /\ resp.status \notin {200, 429}
    /\ ~(resp.status = 403 /\ resp.remaining = <<"0">>)

\* a 403 whose X-RateLimit-Remaining is absent or not "0"
IsPlainForbidden(resp) == resp.status = 403 /\ resp.remaining # <<"0">>

\* C6: when the latest response of a call has a status other than 200, 429
\* and rate-limited 403, the call has returned an error without sleeping on
\* it, so no request follows it; when it was the first response, the call has
\* made exactly one request.
Thm_C6 ==
    (Answered /\ IsOtherResponse(call.last)) =>
        /\ call.done
        /\ gpc = "done"
        /\ call.err = "unexpected status"
        /\ call.requests = call.attempt + 1
        /\ now = call.before

\* the second call of a client is answered 404 at once
Witness_C6 ==
    /\ Answered
    /\ call.last.status = 404
    /\ call.requests = 1
    /\ calls = 2

\* C7, as claimed: a call whose first response is a plain 403 returns
\* "unexpected status" on that attempt and has not slept at all, neither
\* before the request nor after it.
Orig_C7 ==
    (Answered /\ call.requests = 1 /\ IsPlainForbidden(call.last)) =>
        /\ call.done
        /\ call.err = "unexpected status"
        /\ call.sleeps = 0
        /\ call.waited = 0

\* C7, amended: such a call returns "unexpected status" on that attempt and
\* does not sleep after the response; it has slept before the request only as
\* the preemptive wait, which happens only with a tracked remaining of 0 and
\* ends at the tracked resetAt plus 5 seconds.
Thm_C7 ==
    (Answered /\ call.requests = 1 /\ IsPlainForbidden(call.last)) =>
        /\ call.done
        /\ call.err = "unexpected status"
        /\ call.sleeps = 0
        /\ now = call.before
        /\ call.waited > 0 =>
              /\ rateLimitRemaining = 0
              /\ now = rateLimitReset + 5 * Second

\* a plain 403 answers the first request of a call that waited preemptively
Witness_C7 ==
    /\ Answered
    /\ call.requests = 1
    /\ IsPlainForbidden(call.last)
    /\ call.waited > 0

\* C8: a call that has had three 429 responses has made exactly three
\* requests, has called time.Sleep after each of them, the last included, and
\* has returned the secondary rate limit error; likewise for three 403
\* responses with X-RateLimit-Remaining "0" and the primary rate limit error.
Thm_C8 ==
    /\ call.n429 = 3 =>
          /\ call.done
          /\ call.requests = 3
          /\ call.sleeps = 3
          /\ call.err = "secondary rate limited"
    /\ call.nPrimary = 3 =>
          /\ call.done
          /\ call.requests = 3
          /\ call.sleeps = 3
          /\ call.err = "primary rate limited"

\* three 429 responses, each with a Retry-After of 2 seconds, all slept out
Witness_C8 ==
    /\ call.n429 = 3
    /\ call.last.retryAfter = <<"2">>
    /\ now - call.before = 2 * Second

\* C9, as claimed: after a 429 the client has slept Retry-After seconds when
\* the header parses as a positive integer, and 60 seconds otherwise.
Orig_C9 ==
    (Answered /\ call.last.status = 429) =>
        LET secs == ParseInt(call.last.retryAfter)
        IN  now - call.before =
               IF call.last.retryAfter # <<>> /\ secs.ok /\ secs.val > 0
               THEN secs.val * Second
               ELSE 60 * Second

\* C10, as claimed: after a 403 with X-RateLimit-Remaining "0" the client has
\* slept until X-RateLimit-Reset plus 5 seconds when the header parses and
\* that instant was still ahead, and 60 seconds otherwise; and when the
\* header parses, the clock is not earlier than reset plus 5 seconds.
Orig_C10 ==
    (Answered /\ call.last.status = 403 /\ call.last.remaining = <<"0">>) =>
        LET unix == ParseInt(call.last.reset)
            parses == call.last.reset # <<>> /\ unix.ok
            target == (unix.val + 5) * Second
        IN  /\ IF parses /\ target > call.before
               THEN now = target
               ELSE now - call.before = 60 * Second
            /\ parses => now >= target

\* the latest answer of the call in progress is a response with status 200
AnsweredOK == Answered /\ call.last.status = 200

\* C11, as claimed: when a response has status 200, at whatever attempt, the
\* call has returned without error, with the decoded body in the target.
Orig_C11 ==
    AnsweredOK =>
        /\ call.done
        /\ call.err = ""
        /\ call.out = call.last.body.val

\* C11, amended: when a response has status 200, at whatever attempt, the
\* call has returned at once, so no request and no sleep follows; it has
\* returned no error with the decoded body in the target when the body
\* decodes, and the error of the decoder when it does not.
Thm_C11 ==
    AnsweredOK =>
        /\ call.done
        /\ gpc = "done"
        /\ call.requests = call.attempt + 1
        /\ now = call.before
        /\ IF call.last.body.json
           THEN call.err = "" /\ call.out = call.last.body.val
           ELSE call.err = "decode"

\* a 200 with a body that decodes answers the third request of a call
Witness_C11 ==
    /\ AnsweredOK
    /\ call.requests = 3
    /\ call.sleeps = 2
    /\ call.last.body.json
    /\ call.out = <<"json">>

----------------------------------------------------------------------------
(* Claims about the worker, continued *)

\* the seats of the page the i-th request of the listing was answered with
PageSeats(i) == cyc.seatAns[i][Len(cyc.seatAns[i])].body.val

\* the logins of the first n pages, in page order
RECURSIVE PagesConcat(_)
PagesConcat(n) == IF n = 0 THEN <<>> ELSE PagesConcat(n - 1) \o PageSeats(n)

\* ListCopilotSeats has returned to collect
ListingReturned == wpc # "seats"

\* C12: the listing requests the pages 1, 2, 3, ... in this order; as long as
\* no request failed, every page before the latest is full (so nothing is
\* requested after a short page), the listing goes on exactly while the
\* latest page is full and has returned exactly when it is short, and the
\* logins are those of all the pages requested, in page order.
Thm_C12 ==
    LET n == Len(cyc.seatAns)
    IN  /\ cyc.pages = [i \in 1..n |-> i]
        /\ ~SeatListingFailed =>
              /\ \A i \in 1..(n - 1) : Len(PageSeats(i)) = perPage
              /\ logins = PagesConcat(n)
              /\ ListingReturned => (n > 0 /\ Len(PageSeats(n)) < perPage)
              /\ (~ListingReturned /\ n > 0) => Len(PageSeats(n)) = perPage

\* a full page and a short page that is not empty: two requests, all logins
Witness_C12 ==
    /\ ListingReturned
    /\ ~SeatListingFailed
    /\ Len(cyc.seatAns) = 2
    /\ Len(PageSeats(1)) = perPage
    /\ PageSeats(2) # <<>>
    /\ Len(logins) = perPage + 1

\* a collection cycle is active: collect has been called and has not returned
CycleActive == wpc # "sleep"

\* C13: the worker is in a cycle or past its end, never both; a cycle starts
\* only as the step that follows the return of the cycle before, with nil or
\* with an error, and the sleep of the whole interval after it; and after the
\* return of every cycle, failed or not, the next cycle starts.
Thm_C13 ==
    /\ [](CycleActive <=> result = "")
    /\ [](cycle > 1 =>
            /\ cyc.after \in {"ok", "err"}
            /\ now >= cyc.since + WorkerInterval * Second)
    /\ [][cycle' # cycle =>
            /\ CycleEnded
            /\ cycle' = cycle + 1
            /\ now' = now + WorkerInterval * Second
            /\ wpc' = "seats" /\ result' = ""]_vars
    /\ \A n \in 1..(MaxCycles - 1) : (cycle = n /\ CycleEnded) ~> (cycle = n + 1)

\* the second cycle is under way after the first one failed
Witness_C13 ==
    /\ cycle = 2
    /\ cyc.after = "err"
    /\ CycleActive
    /\ wpc = "users"
    /\ now >= Now0 + WorkerInterval * Second

\* collect is between collectMu.Lock() and the deferred collectMu.Unlock()
Publishing == wpc \in {"reset", "set"}

\* C14: the publish runs with collectMu write-locked from its first Reset to
\* its return, a scrape gathers only while it holds the read lock, and the
\* write lock is never held together with a read lock; read locks may be held
\* by several scrapes at once.
Thm_C14 ==
    /\ Publishing <=> writer
    /\ writer => readers = {}
    /\ \A sc \in Scrapes : obs[sc] # <<>> => sc \in readers

\* two scrapes hold the lock at once, both gathering, while the worker waits
\* in collectMu.Lock() to publish
Witness_C14 ==
    /\ Cardinality(readers) = 2
    /\ \A sc \in readers : obs[sc] # <<>>
    /\ wpc = "lock"
    /\ writerWaiting

----------------------------------------------------------------------------
(* Claims about get, continued *)

\* httpClient.Do has answered the latest request with an error
TransportFailed == call.requests > 0 /\ call.last.transport

\* the tracked rate-limit state is what it was when the latest answer arrived
RateLimitUntouched ==
    /\ rateLimitRemaining = call.rl.rem
    /\ rateLimitReset = call.rl.reset

\* C15: when httpClient.Do has returned an error, at whatever attempt, the
\* call has returned that error at once: no sleep since, no request after
\* it, the tracked rate-limit state as it was.
Thm_C15 ==
    TransportFailed =>
        /\ call.done
        /\ gpc = "done"
        /\ call.err = "transport"
        /\ call.requests = call.attempt + 1
        /\ now = call.before
        /\ RateLimitUntouched

\* the third request of a call fails in transport, after two rate-limited
\* answers, on a client that tracks a remaining of 0
Witness_C15 ==
    /\ TransportFailed
    /\ call.requests = 3
    /\ call.sleeps = 2
    /\ rateLimitRemaining = 0

\* get is about to issue a request: the first of a call or a retry
AboutToRequest == gpc = "loop"

\* the tracked state says the rate limit is used up and not yet reset
MustStillWait ==
    rateLimitRemaining = 0 /\ now < rateLimitReset + 5 * Second

\* C16, as claimed: no request, first or retry, is issued while the tracked
\* remaining is 0 and the clock is earlier than the tracked resetAt plus 5
\* seconds: the client has waited until then.
Orig_C16 == AboutToRequest => ~MustStillWait

\* all three attempts of the call were answered with a rate limit, of either
\* kind
AttemptsUsedUp == call.n429 + call.nPrimary = maxRetries

\* C17, as claimed: a call whose three attempts were all answered with rate
\* limits, of any mix of the two kinds, has failed with "exceeded max
\* retries".
Orig_C17 ==
    AttemptsUsedUp => (call.done /\ call.err = "exceeded max retries")

\* C17, amended: such a call has failed, after exactly three requests, with
\* the rate limit error of the kind of its third response: secondary after a
\* 429, primary after a 403; no call ever fails with "exceeded max retries".
Thm_C17 ==
    /\ AttemptsUsedUp =>
          /\ call.done
          /\ gpc = "done"
          /\ call.requests = maxRetries
          /\ call.err = IF call.last.status = 429
                        THEN "secondary rate limited"
                        ELSE "primary rate limited"
    /\ call.err # "exceeded max retries"

\* a mix: one 403 with X-RateLimit-Remaining "0" and two 429s, a 429 last
Witness_C17 ==
    /\ AttemptsUsedUp
    /\ call.nPrimary = 1
    /\ call.n429 = 2
    /\ call.last.status = 429
    /\ call.err = "secondary rate limited"

\* the calls of time.Sleep a call has made: the preemptive wait and the sleeps
\* after rate-limited responses
SleepsOfCall == (IF call.waited > 0 THEN 1 ELSE 0) + call.sleeps

GetErrors ==
    {"transport", "decode", "secondary rate limited", "primary rate limited",
     "unexpected status"}

\* C18: whatever the answers, a call issues at most three requests and
\* sleeps at most four times, once before the first request and once after
\* each rate-limited response; inside the loop every answer so far has used
\* up one of the three attempts; a call that is over has returned success or
\* an error; and every call whose requests are answered is over in the end.
Thm_C18 ==
    /\ [](/\ call.requests <= maxRetries
          /\ call.sleeps = call.n429 + call.nPrimary
          /\ call.sleeps <= call.requests
          /\ SleepsOfCall <= maxRetries + 1
          /\ gpc = "loop" =>
                (~call.done /\ call.requests = call.attempt
                            /\ call.attempt < maxRetries)
          /\ gpc = "done" =>
                (call.done /\ call.err \in GetErrors \cup {""}))
    /\ (gpc = "loop") ~> (gpc = "done")

\* four sleeps in one call: the preemptive wait, then 429, rate-limited 403
\* and 429, each slept on
Witness_C18 ==
    /\ gpc = "done"
    /\ call.requests = 3
    /\ SleepsOfCall = 4
    /\ call.nPrimary = 1
    /\ call.n429 = 2

\* a header value that is present and parses as an integer
Parses(h) == h # <<>> /\ ParseInt(h).ok

\* C19, as claimed: after a 200, the tracked remaining is the value of its
\* header when that parses and its prior value otherwise; the tracked resetAt
\* is the instant of its header when that parses, and otherwise it has been
\* replaced and is not its prior value.
Orig_C19 ==
    AnsweredOK =>
        /\ rateLimitRemaining =
              IF Parses(call.last.remaining)
              THEN ParseInt(call.last.remaining).val ELSE call.rl.rem
        /\ IF Parses(call.last.reset)
           THEN rateLimitReset = ParseInt(call.last.reset).val * Second
           ELSE rateLimitReset # call.rl.reset

\* C19, amended: after a 200, each of the two tracked values is that of its
\* header when the header parses and its prior value when the header is
\* absent or does not parse, the one independently of the other.
Thm_C19 ==
    AnsweredOK =>
        /\ rateLimitRemaining =
              IF Parses(call.last.remaining)
              THEN ParseInt(call.last.remaining).val ELSE call.rl.rem
        /\ rateLimitReset =
              IF Parses(call.last.reset)
              THEN ParseInt(call.last.reset).val * Second ELSE call.rl.reset

\* a 200 with an unparseable X-RateLimit-Remaining and no X-RateLimit-Reset
\* arrives at a client that tracks values of an earlier 200
Witness_C19 ==
    /\ AnsweredOK
    /\ call.last.remaining = <<"x">>
    /\ call.last.reset = <<>>
    /\ call.rl.rem = 7
    /\ call.rl.reset = 130 * Second
    /\ rateLimitReset = 130 * Second

\* C20: whenever the latest answer of a call is not a 200 response (a 429, a
\* 403 with or without X-RateLimit-Remaining "0", another status, a
\* transport error), the tracked rate-limit state is what it was when that
\* answer arrived; a remaining of 0 is tracked only once a 200 has carried
\* it; and a call that has just begun has waited preemptively only with a
\* tracked remaining of 0 which an earlier 200 recorded, also when the call
\* before it failed on the primary rate limit.
Thm_C20 ==
    /\ (call.requests > 0 /\ ~AnsweredOK) => RateLimitUntouched
    /\ rateLimitRemaining = 0 => past.zero
    /\ (gpc = "loop" /\ call.requests = 0 /\ call.waited > 0) =>
          (rateLimitRemaining = 0 /\ past.zero)
    /\ (past.afterPrimary /\ ~past.zero) => call.waited = 0

\* a call begins after a call that failed on the primary rate limit: no 200
\* has been handled, nothing is tracked, and the call does not wait
Witness_C20 ==
    /\ past.afterPrimary
    /\ ~past.zero
    /\ gpc = "loop"
    /\ call.requests = 0
    /\ call.waited = 0
    /\ rateLimitRemaining = 0 - 1
    /\ rateLimitReset = ZeroTime

----------------------------------------------------------------------------
(* Claims about collectMu, under SpecLock *)

\* collect is in ListCopilotSeats or in the range over logins, where the
\* Client issues its requests and sleeps on rate limits, or has returned
OutsidePublish == wpc \in {"seats", "users", "sleep"}

\* C21: the worker holds the write lock only during the publish; while the
\* Client is at work, and after collect has returned, the lock is neither
\* held nor asked for by the worker, so no scrape is blocked then; the
\* worker always releases the lock; a worker waiting in Lock gets the lock;
\* a scrape blocked in RLock gets the lock; and a scrape that holds the lock
\* completes and releases it.
Thm_C21 ==
    /\ [](writer => Publishing)
    /\ [](OutsidePublish => (~writer /\ ~writerWaiting /\ blocked = {}))
    /\ writer ~> ~writer
    /\ (wpc = "lock") ~> writer
    /\ \A sc \in Scrapes : (sc \in blocked) ~> (sc \in readers)
    /\ \A sc \in Scrapes : (sc \in readers) ~> (sc \notin readers)

\* the worker waits in Lock for a scrape in flight, and a scrape that arrived
\* after the call of Lock is blocked behind it
Witness_C21 ==
    /\ wpc = "lock"
    /\ writerWaiting
    /\ Cardinality(readers) = 1
    /\ Cardinality(blocked) = 1
    /\ entries # <<>>

====
